---- MODULE Spec2Model ----
(***************************************************************************)
(* A model of the streaming pipeline of MPD:                               *)
(*   - ogg_decode (src/ogg_decode.c): the decoder loop that fills a        *)
(*     scratch chunk from the codec and pushes it into the shared ring     *)
(*     buffer cb, honouring dc->seek and dc->stop;                         *)
(*   - the player that pops chunks at cb->begin and sets dc->seek and      *)
(*     dc->stop (its code is not part of the sources at hand, it follows   *)
(*     the TryPop contract and the seek handshake of the specification).   *)
(* The code takes no lock: each statement of the decoder that reads or     *)
(* writes cb or dc is a step of its own, and the player's steps interleave *)
(* with them.                                                              *)
(*   - RecorderOutput (src/output/plugins/RecorderOutputPlugin.cxx): the   *)
(*     sink that encodes PCM and writes it to a file, under the calls      *)
(*     Open, Play, SendTag and Close of its owner, and its creation from   *)
(*     a configuration block (Create, Configure).                          *)
(***************************************************************************)
EXTENDS Integers, Sequences, FiniteSets, TLC

\* Number of chunks of the ring buffer (buffered_chunks in the source).
buffered_chunks == 2
\* Capacity of one chunk in bytes (CHUNK_SIZE in the source).
CHUNK_SIZE == 2
\* Length of the decoded stream in PCM bytes.
StreamLen == 6
\* Number of seek requests the player issues at most.
MaxSeeks == 1

\* sizeof(RecorderOutput::buffer), in bytes.
BufferSize == 2
\* Bytes one call of the encoder adds to its pending output at most.
MaxEmit == 2
\* Calls of Open, Play, SendTag and Close in one run.
MaxCalls == 3
\* Times write() fails with EINTR in one call of WriteToFile.
MaxEintr == 1
\* Length of the file when a call of WriteToFile is examined on its own.
MaxFileLen == 2

\* The byte values of the data and file of such a call.
WriteBytes == {0, 1}

\* The sizes of the PCM chunks given to Play.
PlaySizes == {1, 2}

\* Positions the player seeks to.
SeekTargets == {0, StreamLen \div 2}

\* What ov_bitrate_instant returns at stream position p: nothing new (0) at
\* even positions, a rate in bits per second at odd ones.
OvBitrateInstant(p) == IF p % 2 = 0 THEN 0 ELSE 1000 * p

VARIABLES
  begin, end, wrap, chunks,          \* Buffer * cb
  dc_state, stop, seek, seekWhere,   \* DecoderControl * dc
  pc, eof, chunkpos, chunk, bitRate, \* locals of ogg_decode
  pos,                               \* position of the codec (OggVorbis_File vf)
  hist,                              \* history of the run, read by the properties only
  sink, rpc, op,                     \* RecorderOutput: OPEN/CLOSED, position in the call, the call
  fd, openFds,                       \* RecorderOutput::fd, the descriptors open in the process
  fileExists, file,                  \* the file at RecorderOutput::path and its bytes
  encoder, pending,                  \* the Encoder: closed/open, its pending output
  buffer, etfOk, result, size,          \* bytes left to write, EncoderToFile's result, the call's result, Play's size
  rhist,                             \* history of the recorder, read by the properties only
  conf                               \* RecorderOutput::Create: the config block, its position and outcome

decVars == <<begin, end, wrap, chunks, dc_state, stop, seek, seekWhere,
             pc, eof, chunkpos, chunk, bitRate, pos, hist>>

recVars == <<sink, rpc, op, fd, openFds, fileExists, file, encoder, pending,
             buffer, etfOk, result, size, rhist, conf>>

vars == <<decVars, recVars>>

cbVars == <<begin, end, wrap, chunks>>
dcVars == <<dc_state, stop, seek, seekWhere>>
localVars == <<eof, chunkpos, chunk, bitRate>>

\* A slot: PCM data, chunkSize, times, bitRate; id and epoch tag the chunk for the
\* properties (the push that wrote it, the seek epoch it was written in).
NoChunk ==
  [id |-> 0, epoch |-> 0, data |-> <<>>, size |-> 0, time |-> 0, bitRate |-> 0]

Min(a, b) == IF a < b THEN a ELSE b

\* begin == end && !wrap
Empty == begin = end /\ ~wrap
\* begin == end && wrap
Full == begin = end /\ wrap

\* The bytes of the stream from offset p, n of them (byte i has value i).
StreamBytes(p, n) == [i \in 1..n |-> p + i - 1]

InitHist ==
  [ nextId |-> 1,            \* identity of the next chunk pushed
    pushed |-> <<>>,         \* chunks pushed since the last reset, in order
    ndeliv |-> 0,            \* chunks delivered since the last reset (saturating)
    fifoBroken |-> FALSE,    \* a pop returned something else than the next pushed chunk
    live |-> {},             \* ids pushed and neither consumed nor discarded
    overwrote |-> FALSE,     \* the decoder wrote into a slot holding a live chunk
    fullWrite |-> FALSE,     \* the decoder wrote while begin == end && wrap
    epoch |-> 0,             \* number of seek requests the decoder has cleared
    stale |-> FALSE,         \* a chunk of an earlier epoch was delivered
    ops |-> <<>>,            \* pushes and pops since the buffer last reported empty
    seeks |-> 0,             \* seek requests issued
    stopRequested |-> FALSE, \* the player has set dc->stop
    pushesAfterStop |-> 0,   \* chunks written after dc->stop was set
    stopSeen |-> FALSE,      \* line 148 has read dc->stop as set
    pushAfterSeen |-> FALSE, \* a chunk was written after line 148 read dc->stop as set
    seekOverStop |-> FALSE,  \* a reposition was started with dc->stop set
    preReset |-> <<>>,       \* begin, end, wrap before the last reset
    resets |-> 0,            \* resets completed
    dropped |-> FALSE,       \* a seek request was cleared without reset
    codecError |-> FALSE,    \* ov_read returned a negative value
    pushAfterError |-> FALSE, \* a chunk was written after ov_read returned a negative value
    droppedNoStop |-> FALSE, \* a seek request was cleared without reset: no stop, no codec error
    emptyPush |-> FALSE ]    \* a chunk of size 0 was written with no codec error

\* The record of the WriteToFile call in progress or last returned: its
\* data, the file when it started, its return value, the Error it set, and
\* whether a write() wrote less than asked or failed with EINTR.
NoWrite ==
  [ data |-> <<>>, file |-> <<>>, ret |-> "none", error |-> "none",
    short |-> FALSE, intr |-> FALSE ]

InitRecHist ==
  [ calls |-> 0,           \* calls made so far
    call |-> "none",       \* the last call started
    nextByte |-> 1,        \* the next byte the encoder produces
    failedStep |-> 0,      \* the step the last Open failed at, 0 if none
    existed |-> FALSE,     \* whether the file existed when the last Open started
    content |-> <<>>,      \* the bytes of the file when the last Open started
    fdsBefore |-> {},      \* the descriptors open when the last Open started
    writeFailed |-> FALSE, \* a write() has failed
    eintr |-> 0,           \* interrupted write() calls of the WriteToFile in progress
    fdCloses |-> 0,        \* close(fd) calls of Close since the last Open
    encCloses |-> 0,       \* encoder_close calls of Close since the last Open
    ewOk |-> TRUE,         \* the encoder call that starts the call in progress succeeded
    toDrain |-> <<>>,      \* the encoder's pending output when the call's drain started
    fileAt |-> <<>>,       \* the bytes of the file when the call started
    drainTried |-> FALSE,  \* the call has called encoder_read
    wrote |-> FALSE,       \* the call has called write()
    wFail |-> FALSE,       \* a write() of the call returned 0 or failed
    tagFailed |-> FALSE,   \* a SendTag has failed since the last Open
    lost |-> FALSE,        \* bytes read from the encoder since the last Open were not written
    undrained |-> FALSE,   \* encoder_write, encoder_tag or encoder_end was called
                           \* with output pending or lost, since the last Open
    playIoFailed |-> FALSE, \* a Play has returned 0 after a failed write, since the last Open
    fedAfterFail |-> FALSE, \* encoder_write took PCM after such a Play
    w |-> NoWrite ]        \* the WriteToFile call in progress or last returned

\* The encoder plugins compiled in, and the values the "encoder" setting of a
\* block may have ("unset": the block has no such setting).
EncoderPlugins == {"vorbis", "lame"}
EncoderParams == {"unset", "vorbis", "lame", "flac"}
\* The "path" setting: absent, a path, or one GetBlockPath rejects.
PathParams == {"unset", "ok", "bad"}

\* A configuration block and its environment before Create runs.
ConfInputs ==
  [ encParam : EncoderParams,
    pathParam : PathParams,
    plugins : SUBSET EncoderPlugins,   \* what encoder_plugin_get knows
    baseOk : BOOLEAN,                  \* result of base.Configure
    initOk : BOOLEAN,                  \* result of encoder_init
    cpc : {"create"},
    encoderName : {"none"},
    path : {"null"},
    encInit : {FALSE},                 \* encoder_init has been called
    created : {FALSE},                 \* Create returned a recorder
    error : {"none"} ]

\* The sink of the recorder runs: created from a block with both settings.
CreatedConf ==
  [ encParam |-> "vorbis", pathParam |-> "ok", plugins |-> EncoderPlugins,
    baseOk |-> TRUE, initOk |-> TRUE, cpc |-> "done",
    encoderName |-> "vorbis", path |-> "set", encInit |-> TRUE,
    created |-> TRUE, error |-> "none" ]

RecInit ==
  /\ sink = "CLOSED" /\ rpc = "idle" /\ op = "none"
  /\ fd = -1 /\ openFds = {}
  /\ fileExists = FALSE /\ file = <<>>
  /\ encoder = "closed" /\ pending = <<>>
  /\ buffer = <<>> /\ etfOk = TRUE /\ size = 0
  /\ result = [call |-> "none", ok |-> TRUE, n |-> 0]
  /\ rhist = InitRecHist

DecInit ==
  /\ begin = 0 /\ end = 0 /\ wrap = FALSE
  /\ chunks = [i \in 0..(buffered_chunks - 1) |-> NoChunk]
  /\ dc_state = "START" /\ stop = FALSE /\ seek = FALSE /\ seekWhere = 0
  /\ pc = "open" /\ eof = FALSE /\ chunkpos = 0 /\ chunk = <<>> /\ bitRate = 0
  /\ pos = 0
  /\ hist = InitHist

Init == RecInit /\ DecInit /\ conf = CreatedConf

\* The sequences over S of length at most n.
SeqsUpTo(S, n) == UNION {[1..k -> S] : k \in 0..n}

\* A call of WriteToFile on its own: the sink is open, EncoderToFile has read
\* a block of 1..BufferSize bytes into buffer for any of the four callers, and
\* the file holds the bytes written before.
WriteInit ==
  /\ DecInit /\ conf = CreatedConf
  /\ rpc = "write"
  /\ op \in {"Open", "Play", "SendTag", "Close"}
  /\ sink = (IF op = "Open" THEN "CLOSED" ELSE "OPEN")
  /\ fd = 3 /\ openFds = {3}
  /\ fileExists = TRUE /\ file \in SeqsUpTo(WriteBytes, MaxFileLen)
  /\ encoder = "open" /\ pending = <<>>
  /\ buffer \in SeqsUpTo(WriteBytes, BufferSize) \ {<<>>}
  /\ etfOk = TRUE /\ size = 1
  /\ result = [call |-> "none", ok |-> TRUE, n |-> 0]
  /\ rhist = [InitRecHist EXCEPT
                !.calls = 1, !.call = op, !.drainTried = TRUE,
                !.w = [NoWrite EXCEPT !.data = buffer, !.file = file,
                                      !.ret = "running"]]

\* Before Create: nothing is open, the block is any of ConfInputs.
ConfInit == RecInit /\ DecInit /\ conf \in ConfInputs

----
\* The decoder: ogg_decode

\* openInputStreamFromFile, ov_open_callbacks; dc->state = DECODE_STATE_DECODE
OpenStream ==
  /\ pc = "open"
  /\ \E r \in {"ok", "nofile", "notogg"} :
       IF r = "ok"
         THEN dc_state' = "DECODE" /\ pc' = "loop"
         ELSE dc_state' = dc_state /\ pc' = "failed"
  /\ UNCHANGED <<recVars, cbVars, stop, seek, seekWhere, localVars, pos, hist>>

\* while(!eof) { if(dc->seek) ...
LoopTop ==
  /\ pc = "loop"
  /\ pc' = IF eof THEN "clrseek" ELSE IF seek THEN "reset" ELSE "read"
  /\ hist' = [hist EXCEPT !.seekOverStop = @ \/ (~eof /\ seek /\ stop)]
  /\ UNCHANGED <<recVars, cbVars, dcVars, localVars, pos>>

\* A reset that rewinds end to the start of the array instead of to begin.
ResetEndToZero ==
  /\ pc = "reset"
  /\ end' = 0
  /\ pc' = "resetwrap"
  /\ hist' = [hist EXCEPT !.preReset = <<begin, end, wrap>>]
  /\ UNCHANGED <<recVars, begin, wrap, chunks, dcVars, localVars, pos>>

\* cb->end = cb->begin;
ResetEnd ==
  /\ pc = "reset"
  /\ end' = begin
  /\ pc' = "resetwrap"
  /\ hist' = [hist EXCEPT !.preReset = <<begin, end, wrap>>]
  /\ UNCHANGED <<recVars, begin, wrap, chunks, dcVars, localVars, pos>>

\* cb->wrap = 0; chunkpos = 0;
ResetWrap ==
  /\ pc = "resetwrap"
  /\ wrap' = FALSE
  /\ chunkpos' = 0 /\ chunk' = <<>>
  /\ pc' = "seekpage"
  /\ hist' = [hist EXCEPT !.pushed = <<>>, !.ndeliv = 0, !.live = {},
                          !.ops = <<>>, !.resets = @ + 1]
  /\ UNCHANGED <<recVars, begin, end, chunks, dcVars, eof, bitRate, pos>>

\* ov_time_seek_page(&vf,dc->seekWhere); dc->seek = 0;
SeekPage ==
  /\ pc = "seekpage"
  /\ pos' = seekWhere
  /\ seek' = FALSE
  /\ pc' = "read"
  /\ hist' = [hist EXCEPT !.epoch = @ + 1]
  /\ UNCHANGED <<recVars, cbVars, dc_state, stop, seekWhere, localVars>>

\* The values ov_read may return with chunkpos bytes in the scratch chunk:
\* a positive byte count, 0 at the end of the stream, a negative error code.
OvReadResults ==
  {-1} \cup (IF pos >= StreamLen THEN {0}
             ELSE 1..Min(CHUNK_SIZE - chunkpos, StreamLen - pos))

\* ret = ov_read(...); if(ret<=0) eof = 1; else chunkpos+=ret;
\* if(chunkpos>=CHUNK_SIZE || eof) ...
ReadChunk ==
  /\ pc = "read"
  /\ \E ret \in OvReadResults :
       /\ IF ret <= 0
            THEN eof' = TRUE /\ UNCHANGED <<chunkpos, chunk, pos>>
            ELSE /\ eof' = eof
                 /\ chunkpos' = chunkpos + ret
                 /\ chunk' = chunk \o StreamBytes(pos, ret)
                 /\ pos' = pos + ret
       /\ hist' = [hist EXCEPT !.codecError = @ \/ ret < 0]
       /\ pc' = IF chunkpos' >= CHUNK_SIZE \/ eof' THEN "wait" ELSE "loop"
  /\ UNCHANGED <<recVars, cbVars, dcVars, bitRate>>

\* A wait loop that does not look at dc->stop.
WaitExitNoStop ==
  /\ pc = "wait"
  /\ ~(begin = end /\ wrap /\ ~seek)
  /\ pc' = "chkstop"
  /\ UNCHANGED <<recVars, cbVars, dcVars, localVars, pos, hist>>

\* while(cb->begin==cb->end && cb->wrap && !dc->stop && !dc->seek) my_usleep(10000);
WaitExit ==
  /\ pc = "wait"
  /\ ~(begin = end /\ wrap /\ ~stop /\ ~seek)
  /\ pc' = "chkstop"
  /\ UNCHANGED <<recVars, cbVars, dcVars, localVars, pos, hist>>

\* A chunk boundary that reads dc->stop and goes on all the same.
CheckStopNoBreak ==
  /\ pc = "chkstop"
  /\ pc' = "chkseek"
  /\ hist' = [hist EXCEPT !.stopSeen = @ \/ stop]
  /\ UNCHANGED <<recVars, cbVars, dcVars, localVars, pos>>

\* if(dc->stop) break;
CheckStop ==
  /\ pc = "chkstop"
  /\ pc' = IF stop THEN "clrseek" ELSE "chkseek"
  /\ hist' = [hist EXCEPT !.stopSeen = @ \/ stop]
  /\ UNCHANGED <<recVars, cbVars, dcVars, localVars, pos>>

\* else if(dc->seek) continue;
CheckSeek ==
  /\ pc = "chkseek"
  /\ pc' = IF seek THEN "loop" ELSE "pushdata"
  /\ UNCHANGED <<recVars, cbVars, dcVars, localVars, pos, hist>>

\* memcpy(cb->chunks+cb->end*CHUNK_SIZE,chunk,chunkpos);
\* cb->chunkSize[cb->end] = chunkpos; chunkpos = 0;
PushData ==
  /\ pc = "pushdata"
  /\ chunks' = [chunks EXCEPT ![end] =
                  [@ EXCEPT !.id = hist.nextId, !.epoch = hist.epoch,
                             !.data = chunk, !.size = chunkpos]]
  /\ chunkpos' = 0 /\ chunk' = <<>>
  /\ pc' = "pushmeta"
  /\ hist' = [hist EXCEPT !.nextId = @ + 1,
                          !.overwrote = @ \/ chunks[end].id \in hist.live,
                          !.fullWrite = @ \/ Full,
                          !.pushAfterSeen = @ \/ hist.stopSeen,
                          !.pushAfterError = @ \/ hist.codecError,
                          !.emptyPush = @ \/ (chunkpos = 0 /\ ~hist.codecError),
                          !.pushesAfterStop = @ + (IF hist.stopRequested THEN 1 ELSE 0)]
  /\ UNCHANGED <<recVars, begin, end, wrap, dcVars, eof, bitRate, pos>>

\* cb->times[cb->end] = ov_time_tell(&vf);
\* if((test = ov_bitrate_instant(&vf))>0) bitRate = test/1000;
\* cb->bitRate[cb->end] = bitRate;
PushMeta ==
  /\ pc = "pushmeta"
  /\ LET test == OvBitrateInstant(pos) IN
       /\ bitRate' = (IF test > 0 THEN test \div 1000 ELSE bitRate)
       /\ chunks' = [chunks EXCEPT ![end] =
                       [@ EXCEPT !.time = pos, !.bitRate = bitRate']]
  /\ pc' = "advance"
  /\ UNCHANGED <<recVars, begin, end, wrap, dcVars, eof, chunkpos, chunk, pos, hist>>

\* The record of one more operation on the buffer since it last reported empty.
NoteOp(kind) ==
  IF Empty THEN <<kind>>
  ELSE IF Len(hist.ops) > buffered_chunks + 1 THEN hist.ops
  ELSE Append(hist.ops, kind)

\* cb->end++;
PushAdvance ==
  /\ pc = "advance"
  /\ end' = end + 1
  /\ pc' = "wrapchk"
  /\ hist' = [hist EXCEPT !.pushed = Append(@, chunks[end]),
                          !.live = @ \cup {chunks[end].id},
                          !.ops = NoteOp("push")]
  /\ UNCHANGED <<recVars, begin, wrap, chunks, dcVars, localVars, pos>>

\* if(cb->end>=buffered_chunks) { cb->end = 0; cb->wrap = 1; }
WrapCheck ==
  /\ pc = "wrapchk"
  /\ IF end >= buffered_chunks
       THEN end' = 0 /\ wrap' = TRUE
       ELSE UNCHANGED <<end, wrap>>
  /\ pc' = "loop"
  /\ UNCHANGED <<recVars, begin, chunks, dcVars, localVars, pos, hist>>

\* ov_clear(&vf); if(dc->seek) dc->seek = 0;
ClearSeek ==
  /\ pc = "clrseek"
  /\ seek' = FALSE
  /\ pc' = "setstate"
  /\ hist' = [hist EXCEPT !.epoch = @ + (IF seek THEN 1 ELSE 0),
                          !.dropped = @ \/ seek,
                          !.droppedNoStop =
                             @ \/ (seek /\ ~stop /\ ~hist.stopRequested
                                     /\ ~hist.codecError)]
  /\ UNCHANGED <<recVars, cbVars, dc_state, stop, seekWhere, localVars, pos>>

\* if(dc->stop) { dc->state = DECODE_STATE_STOP; dc->stop = 0; }
\* else dc->state = DECODE_STATE_STOP;
SetState ==
  /\ pc = "setstate"
  /\ dc_state' = "STOP"
  /\ stop' = FALSE
  /\ pc' = "done"
  /\ UNCHANGED <<recVars, cbVars, seek, seekWhere, localVars, pos, hist>>

Decoder ==
  \/ OpenStream \/ LoopTop \/ ResetEnd \/ ResetWrap \/ SeekPage \/ ReadChunk
  \/ WaitExit \/ CheckStop \/ CheckSeek
  \/ PushData \/ PushMeta \/ PushAdvance \/ WrapCheck
  \/ ClearSeek \/ SetState

----
\* The player (consumer)

\* TryPop: fails when begin==end && !wrap; otherwise returns the chunk at
\* begin, advances begin modulo N, clears wrap.  No pop is in flight during
\* a seek handshake.
Pop ==
  /\ ~Empty
  /\ ~seek
  /\ LET c == chunks[begin]
         n == Min(hist.ndeliv + 1, Len(hist.pushed) + 1)
         expected == n <= Len(hist.pushed) /\ hist.pushed[n] = c
     IN hist' = [hist EXCEPT !.ndeliv = n,
                             !.fifoBroken = @ \/ ~expected,
                             !.live = @ \ {c.id},
                             !.stale = @ \/ (c.id # 0 /\ c.epoch < hist.epoch),
                             !.ops = NoteOp("pop")]
  /\ begin' = (begin + 1) % buffered_chunks
  /\ wrap' = FALSE
  /\ UNCHANGED <<recVars, end, chunks, dcVars, pc, localVars, pos>>

\* The player sets seek=true, seek_target=T.
RequestSeek ==
  /\ dc_state = "DECODE"
  /\ ~seek
  /\ hist.seeks < MaxSeeks
  /\ \E t \in SeekTargets : seekWhere' = t
  /\ seek' = TRUE
  /\ hist' = [hist EXCEPT !.seeks = @ + 1]
  /\ UNCHANGED <<recVars, cbVars, dc_state, stop, pc, localVars, pos>>

\* The player sets stop=true.
RequestStop ==
  /\ dc_state = "DECODE"
  /\ ~hist.stopRequested
  /\ stop' = TRUE
  /\ hist' = [hist EXCEPT !.stopRequested = TRUE]
  /\ UNCHANGED <<recVars, cbVars, dc_state, seek, seekWhere, pc, localVars, pos>>

Player == Pop \/ RequestSeek \/ RequestStop

----
\* The recorder output: RecorderOutput

\* The bytes n successive outputs of the encoder consist of.
Emit(n) == [i \in 1..n |-> rhist.nextByte + i - 1]

\* The numbers of bytes one call of the encoder may add to its pending output.
EncoderOutputs == 0..MaxEmit

\* The descriptor OpenFile returns: the lowest one not open.
NewFd == CHOOSE d \in 3..(4 + Cardinality(openFds)) :
           d \notin openFds /\ \A e \in 3..(d - 1) : e \in openFds

NoteCall(h, name) == [h EXCEPT !.calls = @ + 1, !.call = name]

\* The record of a call of encoder_write, encoder_tag or encoder_end: whether
\* output of earlier calls is still in the encoder or was dropped unwritten.
NoteEncoderCall(h) == [h EXCEPT !.undrained = @ \/ pending # <<>> \/ h.lost]

\* The record of a call that starts with an encoder call: whether that one
\* succeeded and what the encoder holds afterwards.
StartCall(h, name, ok, pend) ==
  [NoteCall(h, name) EXCEPT !.ewOk = ok, !.toDrain = pend, !.fileAt = file,
                            !.drainTried = FALSE, !.wrote = FALSE,
                            !.wFail = FALSE, !.w = NoWrite]

\* Open: fd = OpenFile(path, O_CREAT|O_WRONLY|O_TRUNC|O_BINARY, 0666);
\* if (fd < 0) return false;
OpenFile ==
  /\ rpc = "idle" /\ sink = "CLOSED"
  /\ rhist.calls < MaxCalls
  /\ \E ok \in BOOLEAN :
       LET h == [NoteCall(rhist, "Open") EXCEPT
                   !.existed = fileExists, !.content = file,
                   !.fdsBefore = openFds, !.tagFailed = FALSE,
                   !.fdCloses = 0, !.encCloses = 0,
                   !.lost = FALSE, !.undrained = FALSE,
                   !.playIoFailed = FALSE, !.fedAfterFail = FALSE,
                   !.w = NoWrite,
                   !.failedStep = IF ok THEN 0 ELSE 1]
       IN IF ok
            THEN /\ fd' = NewFd
                 /\ openFds' = openFds \cup {NewFd}
                 /\ fileExists' = TRUE /\ file' = <<>>
                 /\ op' = "Open" /\ rpc' = "encopen"
                 /\ result' = result
                 /\ rhist' = h
            ELSE /\ fd' = -1
                 /\ result' = [call |-> "Open", ok |-> FALSE, n |-> 0]
                 /\ rhist' = h
                 /\ UNCHANGED <<openFds, fileExists, file, op, rpc>>
  /\ UNCHANGED <<decVars, conf, sink, encoder, pending, buffer, etfOk, size>>

\* An encoder_open failure path that closes the descriptor and leaves the file.
EncoderOpenNoRemove ==
  /\ rpc = "encopen"
  /\ \E ok \in BOOLEAN, n \in EncoderOutputs :
       IF ok
         THEN /\ encoder' = "open"
              /\ pending' = Emit(n)
              /\ rhist' = [rhist EXCEPT !.nextByte = @ + n]
              /\ rpc' = "drain"
              /\ UNCHANGED <<openFds, fileExists, file, result>>
         ELSE /\ openFds' = openFds \ {fd}
              /\ result' = [call |-> "Open", ok |-> FALSE, n |-> 0]
              /\ rhist' = [rhist EXCEPT !.failedStep = 2]
              /\ rpc' = "idle"
              /\ UNCHANGED <<encoder, pending, fileExists, file>>
  /\ UNCHANGED <<decVars, conf, sink, op, fd, buffer, etfOk, size>>

\* Open: if (!encoder_open(encoder, audio_format, error)) {
\*         close(fd); RemoveFile(path); return false; }
EncoderOpen ==
  /\ rpc = "encopen"
  /\ \E ok \in BOOLEAN, n \in EncoderOutputs :
       IF ok
         THEN /\ encoder' = "open"
              /\ pending' = Emit(n)
              /\ rhist' = [rhist EXCEPT !.nextByte = @ + n]
              /\ rpc' = "drain"
              /\ UNCHANGED <<openFds, fileExists, file, result>>
         ELSE /\ openFds' = openFds \ {fd}
              /\ fileExists' = FALSE /\ file' = <<>>
              /\ result' = [call |-> "Open", ok |-> FALSE, n |-> 0]
              /\ rhist' = [rhist EXCEPT !.failedStep = 2]
              /\ rpc' = "idle"
              /\ UNCHANGED <<encoder, pending>>
  /\ UNCHANGED <<decVars, conf, sink, op, fd, buffer, etfOk, size>>

\* EncoderToFile: size = encoder_read(encoder, buffer, sizeof(buffer));
\* if (size == 0) return true;
EncoderRead ==
  /\ rpc = "drain"
  /\ LET n == Min(Len(pending), BufferSize) IN
       IF n = 0
         THEN /\ etfOk' = TRUE
              /\ rpc' = "return"
              /\ rhist' = [rhist EXCEPT !.drainTried = TRUE]
              /\ UNCHANGED <<pending, buffer>>
         ELSE /\ buffer' = SubSeq(pending, 1, n)
              /\ pending' = SubSeq(pending, n + 1, Len(pending))
              /\ rpc' = "write"
              /\ etfOk' = etfOk
              /\ rhist' = [rhist EXCEPT
                             !.drainTried = TRUE,
                             !.w = [NoWrite EXCEPT !.data = buffer',
                                                   !.file = file,
                                                   !.ret = "running"]]
  /\ UNCHANGED <<decVars, conf, sink, op, fd, openFds, fileExists, file, encoder,
                 result, size>>

\* What write(fd, data, end - data) may return: a byte count, or -1 and errno.
WriteResults ==
  {[nbytes |-> n, errno |-> "none"] : n \in 0..Len(buffer)}
    \cup {[nbytes |-> -1, errno |-> e] : e \in {"EINTR", "EIO"}}

\* A WriteToFile that returns true after the first write() that wrote
\* something.
WriteToFileOnce ==
  /\ rpc = "write"
  /\ \E r \in WriteResults :
       IF r.nbytes > 0
         THEN /\ file' = file \o SubSeq(buffer, 1, r.nbytes)
              /\ buffer' = SubSeq(buffer, r.nbytes + 1, Len(buffer))
              /\ rpc' = "drain"
              /\ rhist' = [rhist EXCEPT
                             !.wrote = TRUE,
                             !.eintr = 0,
                             !.w.short = @ \/ r.nbytes < Len(buffer),
                             !.w.ret = "true"]
              /\ etfOk' = etfOk
         ELSE IF r.nbytes = 0 \/ r.errno # "EINTR"
           THEN /\ etfOk' = FALSE
                /\ rpc' = "return"
                /\ buffer' = <<>>
                /\ rhist' = [rhist EXCEPT !.wrote = TRUE, !.writeFailed = TRUE,
                                          !.wFail = TRUE, !.lost = TRUE,
                                          !.eintr = 0,
                                          !.w.ret = "false",
                                          !.w.error = IF r.nbytes = 0
                                                        THEN "write() returned 0"
                                                        ELSE "Failed to write"]
                /\ UNCHANGED file
           ELSE /\ rhist.eintr < MaxEintr
                /\ rhist' = [rhist EXCEPT !.wrote = TRUE, !.eintr = @ + 1,
                                          !.w.intr = TRUE]
                /\ UNCHANGED <<etfOk, rpc, buffer, file>>
  /\ UNCHANGED <<decVars, conf, sink, op, fd, openFds, fileExists, encoder, pending,
                 result, size>>

\* WriteToFile: nbytes = write(fd, data, end - data); one turn of the loop.
\* nbytes > 0 advances data and returns true at the end; nbytes == 0 and an
\* errno other than EINTR set the Error and return false; EINTR tries again.
WriteToFile ==
  /\ rpc = "write"
  /\ \E r \in WriteResults :
       IF r.nbytes > 0
         THEN /\ file' = file \o SubSeq(buffer, 1, r.nbytes)
              /\ buffer' = SubSeq(buffer, r.nbytes + 1, Len(buffer))
              /\ rpc' = IF r.nbytes = Len(buffer) THEN "drain" ELSE "write"
              /\ rhist' = [rhist EXCEPT
                             !.wrote = TRUE,
                             !.eintr = IF r.nbytes = Len(buffer) THEN 0 ELSE @,
                             !.w.short = @ \/ r.nbytes < Len(buffer),
                             !.w.ret = IF r.nbytes = Len(buffer) THEN "true" ELSE @]
              /\ etfOk' = etfOk
         ELSE IF r.nbytes = 0 \/ r.errno # "EINTR"
           THEN /\ etfOk' = FALSE
                /\ rpc' = "return"
                /\ buffer' = <<>>
                /\ rhist' = [rhist EXCEPT !.wrote = TRUE, !.writeFailed = TRUE,
                                          !.wFail = TRUE, !.lost = TRUE,
                                          !.eintr = 0,
                                          !.w.ret = "false",
                                          !.w.error = IF r.nbytes = 0
                                                        THEN "write() returned 0"
                                                        ELSE "Failed to write"]
                /\ UNCHANGED file
           ELSE /\ rhist.eintr < MaxEintr
                /\ rhist' = [rhist EXCEPT !.wrote = TRUE, !.eintr = @ + 1,
                                          !.w.intr = TRUE]
                /\ UNCHANGED <<etfOk, rpc, buffer, file>>
  /\ UNCHANGED <<decVars, conf, sink, op, fd, openFds, fileExists, encoder, pending,
                 result, size>>

\* Open: if (!EncoderToFile(error)) { encoder_close(encoder); close(fd);
\*         RemoveFile(path); return false; }  return true;
OpenFinish ==
  /\ rpc = "return" /\ op = "Open"
  /\ IF etfOk
       THEN /\ sink' = "OPEN"
            /\ result' = [call |-> "Open", ok |-> TRUE, n |-> 0]
            /\ UNCHANGED <<encoder, pending, openFds, fileExists, file, rhist>>
       ELSE /\ encoder' = "closed" /\ pending' = <<>>
            /\ openFds' = openFds \ {fd}
            /\ fileExists' = FALSE /\ file' = <<>>
            /\ result' = [call |-> "Open", ok |-> FALSE, n |-> 0]
            /\ rhist' = [rhist EXCEPT !.failedStep = 3, !.w = NoWrite]
            /\ sink' = sink
  /\ rpc' = "idle"
  /\ UNCHANGED <<decVars, conf, op, fd, buffer, etfOk, size>>

\* Play: encoder_write(encoder, chunk, size, error) && ...
PlayWrite ==
  /\ rpc = "idle" /\ sink = "OPEN"
  /\ rhist.calls < MaxCalls
  /\ \E ok \in BOOLEAN, sz \in PlaySizes, n \in EncoderOutputs :
       /\ size' = sz
       /\ IF ok
            THEN /\ pending' = pending \o Emit(n)
                 /\ rhist' = [NoteEncoderCall(StartCall(rhist, "Play", TRUE, pending'))
                                EXCEPT !.nextByte = @ + n,
                                       !.fedAfterFail = @ \/ rhist.playIoFailed]
                 /\ op' = "Play" /\ rpc' = "drain"
                 /\ result' = result
            ELSE /\ result' = [call |-> "Play", ok |-> FALSE, n |-> 0]
                 /\ rhist' = NoteEncoderCall(StartCall(rhist, "Play", FALSE, pending))
                 /\ UNCHANGED <<pending, op, rpc>>
  /\ UNCHANGED <<decVars, conf, sink, fd, openFds, fileExists, file, encoder,
                 buffer, etfOk>>

\* A Play that returns size whatever EncoderToFile returned.
PlayFinishAlways ==
  /\ rpc = "return" /\ op = "Play"
  /\ result' = [call |-> "Play", ok |-> TRUE, n |-> size]
  /\ rpc' = "idle"
  /\ UNCHANGED <<decVars, conf, sink, op, fd, openFds, fileExists, file, encoder,
                 pending, buffer, etfOk, size, rhist>>

\* Play: ... && EncoderToFile(error) ? size : 0
PlayFinish ==
  /\ rpc = "return" /\ op = "Play"
  /\ result' = [call |-> "Play", ok |-> etfOk, n |-> IF etfOk THEN size ELSE 0]
  /\ rpc' = "idle"
  /\ rhist' = [rhist EXCEPT !.playIoFailed = @ \/ ~etfOk]
  /\ UNCHANGED <<decVars, conf, sink, op, fd, openFds, fileExists, file, encoder,
                 pending, buffer, etfOk, size>>

\* SendTag: if (!encoder_pre_tag(encoder, error) || ...) LogError(error);
PreTag ==
  /\ rpc = "idle" /\ sink = "OPEN"
  /\ rhist.calls < MaxCalls
  /\ \E ok \in BOOLEAN, n \in EncoderOutputs :
       IF ok
         THEN /\ pending' = pending \o Emit(n)
              /\ rhist' = [StartCall(rhist, "SendTag", TRUE, pending') EXCEPT
                             !.nextByte = @ + n]
              /\ op' = "SendTag" /\ rpc' = "drain"
              /\ result' = result
         ELSE /\ result' = [call |-> "SendTag", ok |-> FALSE, n |-> 0]
              /\ rhist' = [StartCall(rhist, "SendTag", FALSE, pending) EXCEPT
                             !.tagFailed = TRUE]
              /\ UNCHANGED <<pending, op, rpc>>
  /\ UNCHANGED <<decVars, conf, sink, fd, openFds, fileExists, file, encoder,
                 buffer, etfOk, size>>

\* A SendTag that gives the stream up when the drain or encoder_tag fails.
SendTagFinishFatal ==
  /\ rpc = "return" /\ op = "SendTag"
  /\ \E ok \in BOOLEAN, n \in EncoderOutputs :
       IF etfOk /\ ok
         THEN /\ pending' = pending \o Emit(n)
              /\ rhist' = [NoteEncoderCall(rhist) EXCEPT !.nextByte = @ + n]
              /\ result' = [call |-> "SendTag", ok |-> TRUE, n |-> 0]
              /\ UNCHANGED <<sink, encoder, openFds>>
         ELSE /\ result' = [call |-> "SendTag", ok |-> FALSE, n |-> 0]
              /\ rhist' = [rhist EXCEPT !.tagFailed = TRUE]
              /\ encoder' = "closed" /\ pending' = <<>>
              /\ openFds' = openFds \ {fd}
              /\ sink' = "CLOSED"
  /\ rpc' = "idle"
  /\ UNCHANGED <<decVars, conf, op, fd, fileExists, file, buffer, etfOk, size>>

\* SendTag: ... || !EncoderToFile(error) || !encoder_tag(encoder, tag, error))
\*            LogError(error);
SendTagFinish ==
  /\ rpc = "return" /\ op = "SendTag"
  /\ \E ok \in BOOLEAN, n \in EncoderOutputs :
       IF etfOk /\ ok
         THEN /\ pending' = pending \o Emit(n)
              /\ rhist' = [NoteEncoderCall(rhist) EXCEPT !.nextByte = @ + n]
              /\ result' = [call |-> "SendTag", ok |-> TRUE, n |-> 0]
         ELSE /\ result' = [call |-> "SendTag", ok |-> FALSE, n |-> 0]
              /\ rhist' = [(IF etfOk THEN NoteEncoderCall(rhist) ELSE rhist)
                             EXCEPT !.tagFailed = TRUE]
              /\ UNCHANGED pending
  /\ rpc' = "idle"
  /\ UNCHANGED <<decVars, conf, sink, op, fd, openFds, fileExists, file, encoder,
                 buffer, etfOk, size>>

\* Close: if (encoder_end(encoder, IgnoreError())) EncoderToFile(IgnoreError());
CloseEnd ==
  /\ rpc = "idle" /\ sink = "OPEN"
  /\ rhist.calls < MaxCalls
  /\ op' = "Close"
  /\ \E ok \in BOOLEAN, n \in EncoderOutputs :
       IF ok
         THEN /\ pending' = pending \o Emit(n)
              /\ rhist' = [NoteEncoderCall(StartCall(rhist, "Close", TRUE, pending'))
                             EXCEPT !.nextByte = @ + n]
              /\ rpc' = "drain"
         ELSE /\ rhist' = NoteEncoderCall(StartCall(rhist, "Close", FALSE, pending))
              /\ rpc' = "return"
              /\ UNCHANGED pending
  /\ UNCHANGED <<decVars, conf, sink, fd, openFds, fileExists, file, encoder,
                 buffer, etfOk, result, size>>

\* Close: encoder_close(encoder);
CloseEncoder ==
  /\ rpc = "return" /\ op = "Close"
  /\ encoder' = "closed" /\ pending' = <<>>
  /\ rpc' = "closefd"
  /\ rhist' = [rhist EXCEPT !.encCloses = @ + 1]
  /\ UNCHANGED <<decVars, conf, sink, op, fd, openFds, fileExists, file, buffer,
                 etfOk, result, size>>

\* A Close that returns without close(fd).
CloseFinishLeak ==
  /\ rpc = "closefd"
  /\ sink' = "CLOSED"
  /\ result' = [call |-> "Close", ok |-> TRUE, n |-> 0]
  /\ rpc' = "idle"
  /\ UNCHANGED <<decVars, conf, op, fd, openFds, fileExists, file, encoder, pending,
                 buffer, etfOk, size, rhist>>

\* Close: close(fd); the function is void and the sink is closed afterwards.
CloseFinish ==
  /\ rpc = "closefd"
  /\ openFds' = openFds \ {fd}
  /\ sink' = "CLOSED"
  /\ result' = [call |-> "Close", ok |-> TRUE, n |-> 0]
  /\ rpc' = "idle"
  /\ rhist' = [rhist EXCEPT !.fdCloses = @ + 1]
  /\ UNCHANGED <<decVars, conf, op, fd, fileExists, file, encoder, pending, buffer,
                 etfOk, size>>

Recorder ==
  \/ OpenFile \/ EncoderOpen \/ EncoderRead \/ WriteToFile \/ OpenFinish
  \/ PlayWrite \/ PlayFinish \/ PreTag \/ SendTagFinish
  \/ CloseEnd \/ CloseEncoder \/ CloseFinish

----
\* The creation of the sink: RecorderOutput::Create and Configure

ConfUnchanged ==
  UNCHANGED <<decVars, sink, rpc, op, fd, openFds, fileExists, file, encoder,
              pending, buffer, etfOk, result, size, rhist>>

\* Create: if (!recorder->Initialize(param, error)) { delete recorder; return nullptr; }
CreateInitialize ==
  /\ conf.cpc = "create"
  /\ conf' = IF conf.baseOk
               THEN [conf EXCEPT !.cpc = "encoder"]
               ELSE [conf EXCEPT !.cpc = "done", !.error = "base"]
  /\ ConfUnchanged

\* An encoder lookup that initialises the encoder as soon as it is found.
ConfigureEncoderInitFirst ==
  /\ conf.cpc = "encoder"
  /\ LET name == IF conf.encParam = "unset" THEN "vorbis" ELSE conf.encParam
     IN conf' = IF name \in conf.plugins
                  THEN [conf EXCEPT !.cpc = "path", !.encoderName = name,
                                    !.encInit = TRUE]
                  ELSE [conf EXCEPT !.cpc = "done", !.encoderName = name,
                                    !.error = "No such encoder"]
  /\ ConfUnchanged

\* Configure: encoder_name = param.GetBlockValue("encoder", "vorbis");
\* encoder_plugin = encoder_plugin_get(encoder_name);
\* if (encoder_plugin == nullptr) { error.Format(...); return false; }
ConfigureEncoder ==
  /\ conf.cpc = "encoder"
  /\ LET name == IF conf.encParam = "unset" THEN "vorbis" ELSE conf.encParam
     IN conf' = IF name \in conf.plugins
                  THEN [conf EXCEPT !.cpc = "path", !.encoderName = name]
                  ELSE [conf EXCEPT !.cpc = "done", !.encoderName = name,
                                    !.error = "No such encoder"]
  /\ ConfUnchanged

\* Configure: path = param.GetBlockPath("path", error);
\* if (path.IsNull()) { if (!error.IsDefined()) error.Set(...); return false; }
ConfigurePath ==
  /\ conf.cpc = "path"
  /\ conf' = IF conf.pathParam = "ok"
               THEN [conf EXCEPT !.cpc = "init", !.path = "set"]
               ELSE [conf EXCEPT !.cpc = "done",
                                 !.error = IF conf.pathParam = "unset"
                                             THEN "'path' not configured"
                                             ELSE "bad path"]
  /\ ConfUnchanged

\* Configure: encoder = encoder_init(*encoder_plugin, param, error);
\* if (encoder == nullptr) return false;  return true;
ConfigureInit ==
  /\ conf.cpc = "init"
  /\ conf' = IF conf.initOk
               THEN [conf EXCEPT !.cpc = "done", !.encInit = TRUE,
                                 !.created = TRUE]
               ELSE [conf EXCEPT !.cpc = "done", !.encInit = TRUE,
                                 !.error = "encoder_init"]
  /\ ConfUnchanged

Create ==
  CreateInitialize \/ ConfigureEncoder \/ ConfigurePath \/ ConfigureInit

----
Next == Decoder \/ Player

\* The decoder and the player.
Spec == Init /\ [][Next]_vars

\* The recorder output under the calls of its owner.
RecSpec == Init /\ [][Recorder]_vars

\* The creation of the sink from every configuration block.
ConfSpec == ConfInit /\ [][Create]_vars

\* One call of WriteToFile from every block and file; the call is not
\* suspended forever, and write() fails with EINTR at most MaxEintr times.
WriteSpec == WriteInit /\ [][WriteToFile]_vars /\ WF_vars(WriteToFile)

\* The decoder thread is scheduled fairly; nothing is assumed of the player.
FairSpec == Spec /\ WF_vars(Decoder)

----
\* Properties

Pushes(n) == [i \in 1..n |-> "push"]

\* C1: between two resets the chunks the player receives are the chunks the
\* decoder pushed, in the order pushed, none lost, duplicated or altered.
FifoOrder == ~hist.fifoBroken

\* C2: the decoder never writes a chunk while begin==end && wrap holds and
\* never writes into a slot that holds a chunk pushed and not yet consumed.
FullPushRejected == ~hist.fullWrite /\ ~hist.overwrote

\* C3: N pushes from an empty buffer without a pop leave it full; after one
\* pop, one more push leaves it full again.
CapacityBoundary ==
  pc # "wrapchk" =>
    /\ hist.ops = Pushes(buffered_chunks) => Full
    /\ hist.ops = Pushes(buffered_chunks) \o <<"pop", "push">> => Full

\* C4: once the decoder has cleared dc->seek, no chunk written before that is
\* delivered to the player.
NoStaleAfterSeek == ~hist.stale

\* C5: from the reset performed for a seek until the next chunk is pushed, the
\* buffer reports empty, whatever begin, end and wrap were before the reset.
ResetLeavesEmpty ==
  (hist.resets > 0 /\ hist.pushed = <<>> /\ pc # "resetwrap") => Empty

ResetFromWrapped ==
  /\ pc = "seekpage"
  /\ hist.preReset[3]
  /\ hist.preReset[1] # 0
  /\ Empty

\* C6: the decoder never starts a reposition (reset and ov_time_seek_page)
\* having read dc->seek as set while dc->stop was set too.
StopPrecedence == ~hist.seekOverStop

\* C7: after dc->stop is set the decoder writes at most the chunk it had
\* already decided to push, writes none once line 148 has read the flag, and
\* ends with state STOP and the flag cleared.
StopObserved ==
  /\ hist.pushesAfterStop <= 1
  /\ ~hist.pushAfterSeen
  /\ (hist.stopSeen => pc \in {"clrseek", "setstate", "done"})
  /\ (pc = "done" => dc_state = "STOP" /\ ~stop)

StoppedMidChunk ==
  /\ pc = "done"
  /\ hist.stopSeen
  /\ chunkpos > 0
  /\ dc_state = "STOP"

\* C8: a decoder waiting on a full buffer with dc->stop set reaches state STOP,
\* whether or not the player ever pops again.
StopUnblocksWait ==
  (pc = "wait" /\ Full /\ stop) ~> (pc = "done" /\ dc_state = "STOP")

WaitingFullWithStop ==
  pc = "wait" /\ Full /\ stop /\ ~seek

\* C9: without stop or seek the decoder never waits on full while the player
\* waits on empty, and once the decoder has finished and the buffer is drained
\* the player has received every pushed chunk exactly once, in order.
StressCompletes ==
  (hist.seeks = 0 /\ ~hist.stopRequested) =>
    /\ ~(pc = "wait" /\ Full /\ Empty)
    /\ (pc = "done" /\ Empty =>
          hist.ndeliv = Len(hist.pushed) /\ ~hist.fifoBroken)

OpenFailed == rpc = "idle" /\ result.call = "Open" /\ ~result.ok

\* C10 as stated: whichever step of Open fails, Open returns false and then
\* the destination file does not exist, the descriptor and the encoder opened
\* by the earlier steps are closed and the sink is CLOSED.
FailedOpenLeavesNothing ==
  OpenFailed =>
    /\ ~fileExists
    /\ openFds = rhist.fdsBefore
    /\ encoder = "closed"
    /\ sink = "CLOSED"

\* C10 amended: when Open fails, no descriptor and no encoder is left open and
\* the sink is CLOSED; a failure of encoder_open or of the header drain leaves
\* no destination file; a failure to create the file leaves the file system
\* as it was, a file of an earlier recording included.
FailedOpenRollsBack ==
  OpenFailed =>
    /\ rhist.failedStep \in 1..3
    /\ openFds = rhist.fdsBefore
    /\ encoder = "closed"
    /\ sink = "CLOSED"
    /\ (rhist.failedStep = 1 => fileExists = rhist.existed /\ file = rhist.content)
    /\ (rhist.failedStep \in {2, 3} => ~fileExists)

FailedDrainOverOldFile ==
  /\ OpenFailed
  /\ rhist.failedStep = 3
  /\ rhist.existed /\ rhist.content # <<>>
  /\ ~fileExists

PlayReturned == rpc = "idle" /\ result.call = "Play"

\* C11: Play returns size exactly when encoder_write succeeded and the drain
\* wrote every pending byte of the encoder to the file, and 0 otherwise; when
\* encoder_write fails the call reads nothing from the encoder and writes
\* nothing to the file.
PlayResult ==
  PlayReturned =>
    /\ result.n \in {0, size}
    /\ (result.n = size <=>
          /\ rhist.ewOk
          /\ pending = <<>>
          /\ file = rhist.fileAt \o rhist.toDrain)
    /\ (~rhist.ewOk =>
          ~rhist.drainTried /\ ~rhist.wrote /\ file = rhist.fileAt)

PlayFailedAfterPartialWrite ==
  /\ PlayReturned
  /\ rhist.ewOk
  /\ result.n = 0
  /\ Len(file) > Len(rhist.fileAt)

SendTagReturned == rpc = "idle" /\ result.call = "SendTag"

IsPrefix(s, t) == Len(s) <= Len(t) /\ SubSeq(t, 1, Len(s)) = s

\* C12: a failure inside SendTag (encoder_pre_tag, the drain or encoder_tag)
\* is only logged: when SendTag returns the sink is still OPEN with its
\* encoder and descriptor open and its file in place, and a later Play whose
\* encoder_write and file writes succeed returns its input length.
TagBestEffort ==
  /\ SendTagReturned =>
       /\ sink = "OPEN"
       /\ encoder = "open"
       /\ fd \in openFds
       /\ fileExists
       /\ IsPrefix(rhist.fileAt, file)
  /\ (PlayReturned /\ rhist.tagFailed /\ rhist.ewOk /\ ~rhist.wFail) =>
       result.n = size

PlayAfterFailedTag ==
  /\ PlayReturned
  /\ rhist.tagFailed
  /\ result.n = size
  /\ size > 0

CloseReturned == rpc = "idle" /\ result.call = "Close"

\* What every Close does, whatever happened before and inside it: the
\* encoder is closed first, then the descriptor, each once, and no error is
\* reported.
CloseReleases ==
  /\ rpc = "closefd" =>
       encoder = "closed" /\ fd \in openFds /\ rhist.fdCloses = 0
  /\ CloseReturned =>
       /\ sink = "CLOSED"
       /\ encoder = "closed"
       /\ fd \notin openFds
       /\ rhist.encCloses = 1
       /\ rhist.fdCloses = 1
       /\ result.ok

\* C13 as stated: every Close calls encoder_end, drains the final bytes to
\* the file, then closes the encoder and then the descriptor, each exactly once
\* and without an error, also when encoder_end or the drain fails.
CloseDrainsAndReleases ==
  /\ CloseReleases
  /\ CloseReturned => rhist.drainTried

\* C13: every Close calls encoder_end and, only if encoder_end succeeded,
\* drains the encoder to the file (writing every pending byte unless a write
\* fails); then it closes the encoder and then the descriptor, each exactly
\* once, and reports no error, also when encoder_end or the drain fails.
CloseReleasesDrainIfEnded ==
  /\ CloseReleases
  /\ CloseReturned =>
       /\ rhist.drainTried <=> rhist.ewOk
       /\ (rhist.ewOk /\ ~rhist.wFail) => file = rhist.fileAt \o rhist.toDrain
       /\ ~rhist.ewOk => file = rhist.fileAt

ClosedWithoutDrain ==
  /\ CloseReturned
  /\ ~rhist.ewOk
  /\ rhist.toDrain # <<>>

\* C14: when the codec read returns a negative result in mid-stream the
\* decoder ends with dc->state ERROR and writes no further chunk into the ring
\* buffer.  (The two open failures return -1 before dc->state is touched and
\* push nothing; the state after them is set outside ogg_decode.)
CodecErrorSetsError ==
  /\ (hist.codecError /\ pc = "done") => dc_state = "ERROR"
  /\ ~hist.pushAfterError

\* C16: every time the decoder clears dc->seek while no stop was requested
\* it has first discarded the partial chunk, reset the ring buffer and
\* repositioned the codec for that request, also when the request arrives as
\* the codec reports the end of the stream.
SeekHonoured == ~hist.droppedNoStop

\* C19: at the end of the stream the decoder pushes a final chunk only if
\* bytes remain in the scratch chunk, so every chunk pushed has a size between
\* 1 and CHUNK_SIZE.
NoEmptyChunk ==
  /\ ~hist.emptyPush
  /\ \A i \in 1..Len(hist.pushed) :
       hist.codecError \/ hist.pushed[i].size \in 1..CHUNK_SIZE

\* The encoder the block asks for, and what makes the block a wrong one.
WantedEncoder == IF conf.encParam = "unset" THEN "vorbis" ELSE conf.encParam
UnknownEncoder == WantedEncoder \notin conf.plugins
MissingPath == conf.pathParam = "unset"

\* C15: when the configured encoder is unknown or the "path" setting is
\* missing, Create fails with an error, encoder_init is never called and no
\* file is created or opened; the encoder looked up is "vorbis" when the block
\* names none, and no path is made up for a block that has none.
ConfigErrorsEarly ==
  /\ (UnknownEncoder \/ MissingPath) =>
       ~conf.encInit /\ ~conf.created /\ ~fileExists /\ openFds = {}
  /\ conf.cpc = "done" =>
       /\ (UnknownEncoder \/ MissingPath) => conf.error # "none"
       /\ conf.created =>
            /\ conf.error = "none"
            /\ conf.encoderName = WantedEncoder
            /\ conf.path = "set" /\ conf.pathParam = "ok"
       /\ (conf.encParam = "unset" /\ conf.baseOk) => conf.encoderName = "vorbis"

DefaultEncoderMissingPath ==
  /\ conf.cpc = "done"
  /\ conf.encParam = "unset" /\ conf.encoderName = "vorbis"
  /\ ~UnknownEncoder
  /\ MissingPath
  /\ conf.error = "'path' not configured"

\* C17: whenever the sink calls encoder_write, encoder_tag or encoder_end,
\* all output the encoder produced in earlier calls has been read out with
\* encoder_read and written to the file, also after a Play whose write failed
\* and after a SendTag.
DrainDiscipline == ~rhist.undrained

\* C18: once a Play has returned 0 because a write to the file failed, every
\* later Play on the sink returns 0 and gives no PCM to the encoder, until
\* the sink is closed.
WriteErrorIsFatal ==
  /\ ~rhist.fedAfterFail
  /\ (PlayReturned /\ rhist.playIoFailed) => result.n = 0

\* What holds of a WriteToFile call while it runs and when it has returned:
\* the bytes written so far followed by the bytes left are the file at entry
\* followed by the data; true is returned with all of the data written and no
\* Error; false is returned with an Error and a proper prefix of the data
\* written.
WriteInv ==
  LET w == rhist.w IN
    /\ w.ret = "running" =>
         /\ rpc = "write" /\ buffer # <<>>
         /\ file \o buffer = w.file \o w.data
         /\ w.error = "none"
    /\ w.ret = "true" =>
         /\ rpc # "write"
         /\ file = w.file \o w.data
         /\ w.error = "none"
    /\ w.ret = "false" =>
         /\ rpc # "write"
         /\ w.error # "none"
         /\ IsPrefix(w.file, file)
         /\ IsPrefix(file, w.file \o w.data)
         /\ file # w.file \o w.data

\* C20: WriteToFile returns true exactly when all bytes of the data have been
\* written to the descriptor, in order and once each, over any sequence of
\* partial writes; EINTR is retried from the current position without an
\* Error; a write() that returns 0 or fails otherwise makes it return false
\* with an Error; and the call returns unless write() fails with EINTR forever.
WriteToFileContract ==
  /\ []WriteInv
  /\ (rhist.w.ret = "running") ~> (rhist.w.ret \in {"true", "false"})

WroteAllInPieces ==
  /\ rhist.w.ret = "true"
  /\ rhist.w.short
  /\ rhist.w.intr
  /\ Len(rhist.w.data) > 1

====
